---- MODULE Spec2Model ----
(***************************************************************************)
(* State-machine model of fooocusapi/utils/file_utils.py: the artifact     *)
(* store that saves generated images under a date bucket, deletes them,    *)
(* re-encodes them as base64 / bytes, uploads them and builds serve URLs.  *)
(*                                                                         *)
(* Strings are sequences of one-character strings, byte strings are        *)
(* sequences of integers 0..255.  A path of the file system is the string  *)
(* relative to output_dir, in forward-slash form.                          *)
(***************************************************************************)
EXTENDS Integers, Sequences, FiniteSets, TLC

VARIABLES
    fs,        \* output_dir: path -> [kind, data]; absent paths are not in DOMAIN
    sep,       \* os.sep of the host ("/" or "\\"), fixed for a run
    clock,     \* datetime.datetime.now(): [year, month, day]
    bucket,    \* object keys stored in the remote bucket
    op,        \* name of the last call
    call,      \* arguments of the last call
    ret,       \* value returned by the last call
    raised,    \* exception the last call propagated, "none" if it returned
    log,       \* logger levels the last call emitted, in order
    contacted, \* remote client requests the last call made, in order
    steps,     \* number of save, delete and upload calls and clock ticks so far
    procs      \* the two concurrent save() calls: position and locals

vars == <<fs, sep, clock, bucket, op, call, ret, raised, log, contacted, steps, procs>>

----------------------------------------------------------------------------
(* Bounds of the model *)

MaxOps == 2
MaxDay == 23

----------------------------------------------------------------------------
(* Optional values: Python's None against a present value *)

None == [present |-> FALSE, v |-> <<>>]
Some(x) == [present |-> TRUE, v |-> x]

----------------------------------------------------------------------------
(* Strings *)

DigitChars == <<"0", "1", "2", "3", "4", "5", "6", "7", "8", "9">>

RECURSIVE ZeroPad(_, _)
\* "%0<width>d" of a natural
ZeroPad(n, width) ==
    IF width = 0 THEN <<>>
    ELSE ZeroPad(n \div 10, width - 1) \o <<DigitChars[(n % 10) + 1]>>

RECURSIVE str_int(_)
\* str(n) of a natural
str_int(n) ==
    IF n < 10 THEN <<DigitChars[n + 1]>>
    ELSE str_int(n \div 10) \o <<DigitChars[(n % 10) + 1]>>

\* str.replace(old, new) for one-character old and new
str_replace(s, old, new) ==
    [i \in 1..Len(s) |-> IF s[i] = old THEN new ELSE s[i]]

\* current_time.strftime("%Y-%m-%d")
strftime(t) ==
    ZeroPad(t.year, 4) \o <<"-">> \o ZeroPad(t.month, 2) \o <<"-">> \o ZeroPad(t.day, 2)

----------------------------------------------------------------------------
(* Paths *)

\* os.path.join(a, b) for a relative b, with the host separator s
os_path_join(a, b, s) ==
    IF Len(a) = 0 \/ a[Len(a)] = s THEN a \o b ELSE a \o <<s>> \o b

\* Mutant of as_posix: the host form of the path is returned as it is
as_posix_host_form(p, s) == p

\* Path(filename).as_posix(): the host separator becomes "/"
as_posix(p, s) == str_replace(p, s, "/")

\* The file-system entry a host path names below output_dir: the host resolves
\* its own separator (and "/" as well where the separator is "\\").
Resolve(p, s) == str_replace(p, s, "/")

\* Positions of the "/" of a resolved path
SlashPositions(p) == {i \in 1..Len(p) : p[i] = "/"}

\* os.path.dirname of a resolved path
dirname(p) ==
    IF SlashPositions(p) = {} THEN <<>>
    ELSE SubSeq(p, 1, (CHOOSE i \in SlashPositions(p) :
                          \A j \in SlashPositions(p) : j <= i) - 1)

----------------------------------------------------------------------------
(* File system below output_dir.  output_dir itself (the empty path) always *)
(* exists as a directory.  kind "symlink" is a dangling symbolic link.      *)

Dir == [kind |-> "dir", data |-> <<>>]
Symlink == [kind |-> "symlink", data |-> <<>>]
File(d) == [kind |-> "file", data |-> d]

KindOf(f, p) ==
    IF p = <<>> THEN "dir"
    ELSE IF p \in DOMAIN f THEN f[p].kind
    ELSE "absent"

\* os.path.exists follows links: a dangling link does not exist
os_path_exists(f, p) == KindOf(f, p) \in {"dir", "file"}
os_path_isfile(f, p) == KindOf(f, p) = "file"
os_path_isdir(f, p) == KindOf(f, p) = "dir"

Put(f, p, e) == [q \in (DOMAIN f) \cup {p} |-> IF q = p THEN e ELSE f[q]]
Drop(f, p) == [q \in (DOMAIN f) \ {p} |-> f[q]]

\* The exception classes that are subclasses of OSError
OSError == {"FileNotFoundError", "FileExistsError", "IsADirectoryError",
            "NotADirectoryError", "PermissionError"}

RECURSIVE os_makedirs(_, _)
\* os.makedirs(p, exist_ok=True): creates the missing ancestors, then p
os_makedirs(f, p) ==
    IF p = <<>> THEN [fs |-> f, raised |-> "none"]
    ELSE LET up == os_makedirs(f, dirname(p)) IN
         IF up.raised # "none" THEN up
         ELSE IF KindOf(up.fs, dirname(p)) # "dir"
              THEN [fs |-> up.fs, raised |-> "NotADirectoryError"]
         ELSE IF KindOf(up.fs, p) = "absent"
              THEN [fs |-> Put(up.fs, p, Dir), raised |-> "none"]
         ELSE IF os_path_isdir(up.fs, p)
              THEN [fs |-> up.fs, raised |-> "none"]
         ELSE [fs |-> up.fs, raised |-> "FileExistsError"]

\* Mutant of os_remove: the file is emptied, not unlinked
os_remove_truncates(f, p) ==
    CASE KindOf(f, p) = "absent" -> [fs |-> f, raised |-> "FileNotFoundError"]
      [] KindOf(f, p) = "dir" -> [fs |-> f, raised |-> "IsADirectoryError"]
      [] OTHER -> [fs |-> Put(f, p, File(<<>>)), raised |-> "none"]

\* os.remove(p): unlinks anything that is not a directory
os_remove(f, p) ==
    CASE KindOf(f, p) = "absent" -> [fs |-> f, raised |-> "FileNotFoundError"]
      [] KindOf(f, p) = "dir" -> [fs |-> f, raised |-> "IsADirectoryError"]
      [] OTHER -> [fs |-> Drop(f, p), raised |-> "none"]

----------------------------------------------------------------------------
(* Metadata mappings.  A Python dict is the sequence of its items in       *)
(* insertion order, keys unique; a value is a str or an int.               *)

StrVal(s) == [t |-> "str", s |-> s, n |-> 0]
IntVal(n) == [t |-> "int", s |-> <<>>, n |-> n]
Item(k, v) == [k |-> k, v |-> v]

dict_keys(d) == {d[i].k : i \in 1..Len(d)}
dict_get(d, k) == d[CHOOSE i \in 1..Len(d) : d[i].k = k].v

RECURSIVE json_escape(_)
\* The body of a JSON string: quote and backslash are escaped
json_escape(s) ==
    IF s = <<>> THEN <<>>
    ELSE (IF Head(s) \in {"\"", "\\"} THEN <<"\\", Head(s)>> ELSE <<Head(s)>>)
         \o json_escape(Tail(s))

json_dumps_str(s) == <<"\"">> \o json_escape(s) \o <<"\"">>

json_dumps_value(v) == IF v.t = "str" THEN json_dumps_str(v.s) ELSE str_int(v.n)

RECURSIVE json_dumps_items(_)
json_dumps_items(d) ==
    IF d = <<>> THEN <<>>
    ELSE json_dumps_str(Head(d).k) \o <<":", " ">> \o json_dumps_value(Head(d).v)
         \o (IF Tail(d) = <<>> THEN <<>> ELSE <<",", " ">> \o json_dumps_items(Tail(d)))

\* json.dumps(d) of a dict with str keys
json_dumps(d) == <<"{">> \o json_dumps_items(d) \o <<"}">>

----------------------------------------------------------------------------
(* Image codec (PIL).  An encoded file is a sequence of chunks, the unit   *)
(* in which it is written; pixels are a sequence of bytes.                 *)

Chunk(t, k, txt, px) == [t |-> t, k |-> k, txt |-> txt, px |-> px]
SigChunk(format) == Chunk("sig", <<>>, format, <<>>)
TextChunk(k, txt) == Chunk("tEXt", k, txt, <<>>)
PixelChunk(px) == Chunk("IDAT", <<>>, <<>>, px)
EndChunk == Chunk("IEND", <<>>, <<>>, <<>>)

\* PngInfo.add_text(key, value)
add_text(meta, k, txt) == Append(meta, [k |-> k, txt |-> txt])

\* Image.fromarray(img).save(fp, format=format, pnginfo=pnginfo): the chunks
\* written; pnginfo is used by the PNG encoder alone
Encode(img, format, pnginfo) ==
    IF format = <<"p", "n", "g">>
    THEN <<SigChunk(format)>>
         \o (IF pnginfo.present
             THEN [i \in 1..Len(pnginfo.v) |-> TextChunk(pnginfo.v[i].k, pnginfo.v[i].txt)]
             ELSE <<>>)
         \o <<PixelChunk(img), EndChunk>>
    ELSE <<SigChunk(format), PixelChunk(img)>>

\* Index of the first chunk of type t, 0 if there is none
FirstChunk(data, t) ==
    IF \E i \in 1..Len(data) : data[i].t = t
    THEN CHOOSE i \in 1..Len(data) : data[i].t = t /\ \A j \in 1..(i - 1) : data[j].t # t
    ELSE 0

\* Image.open(file_path) followed by the load that img.save() forces:
\* [ok, format, px, text], the text chunks read up to the end chunk
ImageOpen(data) ==
    LET bad == [ok |-> FALSE, format |-> <<>>, px |-> <<>>, text |-> <<>>] IN
    IF data = <<>> \/ data[1].t # "sig" THEN bad
    ELSE IF data[1].txt = <<"p", "n", "g">>
    THEN LET e == FirstChunk(data, "IEND")
             body == SubSeq(data, 2, e - 1)
             p == FirstChunk(body, "IDAT")
             texts == SelectSeq(body, LAMBDA c : c.t = "tEXt")
         IN  IF e = 0 \/ p = 0 \/ \E i \in 1..Len(body) : body[i].t = "sig" THEN bad
             ELSE [ok |-> TRUE, format |-> data[1].txt, px |-> body[p].px,
                   text |-> [i \in 1..Len(texts) |-> [k |-> texts[i].k, txt |-> texts[i].txt]]]
    ELSE IF Len(data) >= 2 /\ data[2].t = "IDAT"
         THEN [ok |-> TRUE, format |-> data[1].txt, px |-> data[2].px, text |-> <<>>]
         ELSE bad

\* img.save(output_buffer, format='PNG'); output_buffer.getvalue(): the PNG
\* byte stream of the pixels alone (signature, length, pixel bytes)
PngBytes(px) == <<137, 80, 78, 71>> \o <<Len(px)>> \o px

B64Alphabet ==
    <<"A", "B", "C", "D", "E", "F", "G", "H", "I", "J", "K", "L", "M", "N", "O", "P",
      "Q", "R", "S", "T", "U", "V", "W", "X", "Y", "Z", "a", "b", "c", "d", "e", "f",
      "g", "h", "i", "j", "k", "l", "m", "n", "o", "p", "q", "r", "s", "t", "u", "v",
      "w", "x", "y", "z", "0", "1", "2", "3", "4", "5", "6", "7", "8", "9", "+", "/">>

B64Char(n) == B64Alphabet[n + 1]

RECURSIVE b64encode(_)
\* base64.b64encode(b).decode('utf-8')
b64encode(b) ==
    IF Len(b) = 0 THEN <<>>
    ELSE IF Len(b) = 1
    THEN <<B64Char(b[1] \div 4), B64Char((b[1] % 4) * 16), "=", "=">>
    ELSE IF Len(b) = 2
    THEN <<B64Char(b[1] \div 4), B64Char((b[1] % 4) * 16 + b[2] \div 16),
           B64Char((b[2] % 16) * 4), "=">>
    ELSE <<B64Char(b[1] \div 4), B64Char((b[1] % 4) * 16 + b[2] \div 16),
           B64Char((b[2] % 16) * 4 + b[3] \div 64), B64Char(b[3] % 64)>>
         \o b64encode(SubSeq(b, 4, Len(b)))

----------------------------------------------------------------------------
(* Literals of the source *)

png == <<"p", "n", "g">>
jpeg == <<"j", "p", "e", "g">>
webp == <<"w", "e", "b", "p">>
gif == <<"g", "i", "f">>
parameters == <<"p", "a", "r", "a", "m", "e", "t", "e", "r", "s">>
fooocus_scheme == <<"f", "o", "o", "o", "c", "u", "s", "_", "s", "c", "h", "e", "m", "e">>
metadata_scheme ==
    <<"m", "e", "t", "a", "d", "a", "t", "a", "_", "s", "c", "h", "e", "m", "e">>

STATIC_SERVER_BASE ==
    <<"h", "t", "t", "p", ":", "/", "/", "1", "2", "7", ".", "0", ".", "0", ".", "1",
      ":", "8", "8", "8", "8", "/", "f", "i", "l", "e", "s", "/">>

\* The formats save_output_file accepts
SaveFormats == {png, jpeg, webp}

----------------------------------------------------------------------------
(* save_output_file *)

\* filename = os.path.join(date_string, image_name + '.' + extension)
save_filename(now, image_name, extension, s) ==
    os_path_join(strftime(now), image_name \o <<".">> \o extension, s)

\* if extension not in ['png', 'jpeg', 'webp']: extension = 'png'
save_format(extension) == IF extension \notin SaveFormats THEN png ELSE extension

\* The PngInfo of the call: [raised, meta], meta None when nothing is embedded
save_pnginfo(format, image_meta) ==
    LET m == IF image_meta.present THEN image_meta.v ELSE <<>> IN
    IF format = png /\ m # <<>>
    THEN IF metadata_scheme \in dict_keys(m)
         THEN [raised |-> "none",
               meta |-> Some(add_text(add_text(<<>>, parameters, json_dumps(m)),
                                      fooocus_scheme, dict_get(m, metadata_scheme).s))]
         ELSE [raised |-> "KeyError", meta |-> None]
    ELSE [raised |-> "none", meta |-> None]

\* Mutant of open_write: an existing file is opened without truncating it
open_write_keeps(f, p) ==
    IF KindOf(f, p) = "dir" THEN [fs |-> f, raised |-> "IsADirectoryError"]
    ELSE IF KindOf(f, dirname(p)) # "dir" THEN [fs |-> f, raised |-> "FileNotFoundError"]
    ELSE IF KindOf(f, p) = "file" THEN [fs |-> f, raised |-> "none"]
    ELSE [fs |-> Put(f, p, File(<<>>)), raised |-> "none"]

\* open(file_path, "w+b") of Image.save: creates or truncates the file
open_write(f, p) ==
    IF KindOf(f, p) = "dir" THEN [fs |-> f, raised |-> "IsADirectoryError"]
    ELSE IF KindOf(f, dirname(p)) # "dir" THEN [fs |-> f, raised |-> "FileNotFoundError"]
    ELSE [fs |-> Put(f, p, File(<<>>)), raised |-> "none"]

\* fp.write of one chunk at offset pos (0-based); a gap left by a truncation
\* is filled with holes
write_at(data, pos, chunk) ==
    [i \in 1..(IF Len(data) > pos + 1 THEN Len(data) ELSE pos + 1) |->
        IF i = pos + 1 THEN chunk
        ELSE IF i <= Len(data) THEN data[i]
        ELSE Chunk("hole", <<>>, <<>>, <<>>)]

RECURSIVE write_all(_, _, _)
\* The writes of Image.save from offset pos on, one chunk after the other
write_all(data, pos, chunks) ==
    IF chunks = <<>> THEN data
    ELSE write_all(write_at(data, pos, Head(chunks)), pos + 1, Tail(chunks))

\* Mutant of save_output_file: the metadata test reads the extension as
\* passed, before it is coerced
save_output_file_meta_first(f, s, now, img, image_meta, image_name, extension) ==
    LET filename == save_filename(now, image_name, extension, s)
        file_path == Resolve(filename, s)
        format == save_format(extension)
        info == save_pnginfo(extension, image_meta)
        made == os_makedirs(f, dirname(file_path))
        opened == open_write(made.fs, file_path)
    IN  IF info.raised # "none" THEN [fs |-> f, ret |-> None, raised |-> info.raised]
        ELSE IF made.raised # "none"
             THEN [fs |-> made.fs, ret |-> None, raised |-> made.raised]
        ELSE IF opened.raised # "none"
             THEN [fs |-> opened.fs, ret |-> None, raised |-> opened.raised]
        ELSE [fs |-> Put(opened.fs, file_path,
                         File(write_all(<<>>, 0, Encode(img, format, info.meta)))),
              ret |-> Some(as_posix(filename, s)),
              raised |-> "none"]

\* Mutant of save_output_file: the bucket directory is made before the
\* metadata is built
save_output_file_makedirs_first(f, s, now, img, image_meta, image_name, extension) ==
    LET filename == save_filename(now, image_name, extension, s)
        file_path == Resolve(filename, s)
        format == save_format(extension)
        made == os_makedirs(f, dirname(file_path))
        info == save_pnginfo(format, image_meta)
        opened == open_write(made.fs, file_path)
    IN  IF made.raised # "none"
        THEN [fs |-> made.fs, ret |-> None, raised |-> made.raised]
        ELSE IF info.raised # "none"
             THEN [fs |-> made.fs, ret |-> None, raised |-> info.raised]
        ELSE IF opened.raised # "none"
             THEN [fs |-> opened.fs, ret |-> None, raised |-> opened.raised]
        ELSE [fs |-> Put(opened.fs, file_path,
                         File(write_all(<<>>, 0, Encode(img, format, info.meta)))),
              ret |-> Some(as_posix(filename, s)),
              raised |-> "none"]

\* save_output_file(img, image_meta, image_name, extension) on file system f,
\* host separator s, at time now: [fs, ret, raised]
save_output_file(f, s, now, img, image_meta, image_name, extension) ==
    LET filename == save_filename(now, image_name, extension, s)
        file_path == Resolve(filename, s)
        format == save_format(extension)
        info == save_pnginfo(format, image_meta)
        made == os_makedirs(f, dirname(file_path))
        opened == open_write(made.fs, file_path)
    IN  IF info.raised # "none" THEN [fs |-> f, ret |-> None, raised |-> info.raised]
        ELSE IF made.raised # "none"
             THEN [fs |-> made.fs, ret |-> None, raised |-> made.raised]
        ELSE IF opened.raised # "none"
             THEN [fs |-> opened.fs, ret |-> None, raised |-> opened.raised]
        ELSE [fs |-> Put(opened.fs, file_path,
                         File(write_all(<<>>, 0, Encode(img, format, info.meta)))),
              ret |-> Some(as_posix(filename, s)),
              raised |-> "none"]

----------------------------------------------------------------------------
(* delete_output_file *)

\* Mutant of delete_output_file: only FileNotFoundError is caught
delete_output_file_narrow_except(f, s, filename) ==
    LET file_path == Resolve(filename, s)
        warn == IF ~os_path_exists(f, file_path) \/ ~os_path_isfile(f, file_path)
                THEN <<"warn">> ELSE <<>>
        rm == os_remove(f, file_path)
    IN  IF rm.raised = "none"
        THEN [fs |-> rm.fs, log |-> warn \o <<"info">>, raised |-> "none"]
        ELSE IF rm.raised = "FileNotFoundError"
        THEN [fs |-> rm.fs, log |-> warn \o <<"error">>, raised |-> "none"]
        ELSE [fs |-> rm.fs, log |-> warn, raised |-> rm.raised]

\* delete_output_file(filename): [fs, log, raised]
delete_output_file(f, s, filename) ==
    LET file_path == Resolve(filename, s)
        warn == IF ~os_path_exists(f, file_path) \/ ~os_path_isfile(f, file_path)
                THEN <<"warn">> ELSE <<>>
        rm == os_remove(f, file_path)
    IN  IF rm.raised = "none"
        THEN [fs |-> rm.fs, log |-> warn \o <<"info">>, raised |-> "none"]
        ELSE IF rm.raised \in OSError
        THEN [fs |-> rm.fs, log |-> warn \o <<"error">>, raised |-> "none"]
        ELSE [fs |-> rm.fs, log |-> warn, raised |-> rm.raised]

----------------------------------------------------------------------------
(* output_file_to_base64img, output_file_to_bytesimg *)

\* Mutant of output_file_to_base64img: the isfile test is missing
output_file_to_base64img_no_isfile(f, s, filename) ==
    IF ~filename.present THEN [ret |-> None, raised |-> "none"]
    ELSE LET file_path == Resolve(filename.v, s) IN
         IF ~os_path_exists(f, file_path)
         THEN [ret |-> None, raised |-> "none"]
         ELSE IF os_path_isdir(f, file_path)
         THEN [ret |-> None, raised |-> "IsADirectoryError"]
         ELSE LET img == ImageOpen(f[file_path].data) IN
              IF ~img.ok THEN [ret |-> None, raised |-> "UnidentifiedImageError"]
              ELSE [ret |-> Some(b64encode(PngBytes(img.px))), raised |-> "none"]

\* output_file_to_base64img(filename): [ret, raised]
output_file_to_base64img(f, s, filename) ==
    IF ~filename.present THEN [ret |-> None, raised |-> "none"]
    ELSE LET file_path == Resolve(filename.v, s) IN
         IF ~os_path_exists(f, file_path) \/ ~os_path_isfile(f, file_path)
         THEN [ret |-> None, raised |-> "none"]
         ELSE LET img == ImageOpen(f[file_path].data) IN
              IF ~img.ok THEN [ret |-> None, raised |-> "UnidentifiedImageError"]
              ELSE [ret |-> Some(b64encode(PngBytes(img.px))), raised |-> "none"]

\* Mutant of output_file_to_bytesimg: the file is opened without the
\* existence test
output_file_to_bytesimg_unchecked(f, s, filename) ==
    IF ~filename.present THEN [ret |-> None, raised |-> "none"]
    ELSE LET file_path == Resolve(filename.v, s) IN
         IF KindOf(f, file_path) \in {"absent", "symlink"}
         THEN [ret |-> None, raised |-> "FileNotFoundError"]
         ELSE IF os_path_isdir(f, file_path)
         THEN [ret |-> None, raised |-> "IsADirectoryError"]
         ELSE LET img == ImageOpen(f[file_path].data) IN
              IF ~img.ok THEN [ret |-> None, raised |-> "UnidentifiedImageError"]
              ELSE [ret |-> Some(PngBytes(img.px)), raised |-> "none"]

\* output_file_to_bytesimg(filename): [ret, raised]
output_file_to_bytesimg(f, s, filename) ==
    IF ~filename.present THEN [ret |-> None, raised |-> "none"]
    ELSE LET file_path == Resolve(filename.v, s) IN
         IF ~os_path_exists(f, file_path) \/ ~os_path_isfile(f, file_path)
         THEN [ret |-> None, raised |-> "none"]
         ELSE LET img == ImageOpen(f[file_path].data) IN
              IF ~img.ok THEN [ret |-> None, raised |-> "UnidentifiedImageError"]
              ELSE [ret |-> Some(PngBytes(img.px)), raised |-> "none"]

----------------------------------------------------------------------------
(* upload_to_storage, get_file_serve_url *)

\* bucket_path = f"{user_id}/{transaction_id}/{filename}"
bucket_path(user_id, transaction_id, filename) ==
    user_id \o <<"/">> \o transaction_id \o <<"/">> \o filename

\* supabase.storage.from_(bucket_name).get_public_url(path): the configured
\* endpoint and bucket, one token, followed by the object key
get_public_url(path) == <<"<SUPABASE_URL>/storage/v1/object/public/<SUPABASE_BUCKET_NAME>/">> \o path

\* Mutant of upload_to_storage: the file is uploaded without the existence test
upload_to_storage_unchecked(f, s, b, filename, transaction_id, user_id, accepted) ==
    LET absent == [ret |-> None, raised |-> "none", contacted |-> <<>>, bucket |-> b] IN
    IF ~filename.present THEN absent
    ELSE IF ~transaction_id.present THEN absent
    ELSE IF ~user_id.present THEN absent
    ELSE LET path == bucket_path(user_id.v, transaction_id.v, filename.v)
         IN  IF ~accepted
             THEN [ret |-> None, raised |-> "StorageException",
                   contacted |-> <<[request |-> "upload", path |-> path]>>, bucket |-> b]
             ELSE [ret |-> Some(get_public_url(path)), raised |-> "none",
                   contacted |-> <<[request |-> "upload", path |-> path],
                                   [request |-> "get_public_url", path |-> path]>>,
                   bucket |-> b \cup {path}]

\* upload_to_storage(filename, transaction_id, user_id) with bucket content b;
\* accepted: whether the storage client stores the object or raises:
\* [ret, raised, contacted, bucket]
upload_to_storage(f, s, b, filename, transaction_id, user_id, accepted) ==
    LET absent == [ret |-> None, raised |-> "none", contacted |-> <<>>, bucket |-> b] IN
    IF ~filename.present THEN absent
    ELSE IF ~transaction_id.present THEN absent
    ELSE IF ~user_id.present THEN absent
    ELSE LET file_path == Resolve(filename.v, s)
             path == bucket_path(user_id.v, transaction_id.v, filename.v)
         IN  IF ~os_path_exists(f, file_path) \/ ~os_path_isfile(f, file_path) THEN absent
             ELSE IF ~accepted
             THEN [ret |-> None, raised |-> "StorageException",
                   contacted |-> <<[request |-> "upload", path |-> path]>>, bucket |-> b]
             ELSE [ret |-> Some(get_public_url(path)), raised |-> "none",
                   contacted |-> <<[request |-> "upload", path |-> path],
                                   [request |-> "get_public_url", path |-> path]>>,
                   bucket |-> b \cup {path}]

\* get_file_serve_url(filename): [ret, raised]
get_file_serve_url(filename) ==
    IF ~filename.present THEN [ret |-> None, raised |-> "none"]
    ELSE [ret |-> Some(STATIC_SERVER_BASE \o str_replace(filename.v, "\\", "/")),
          raised |-> "none"]

----------------------------------------------------------------------------
(* Inputs the calls are made with *)

Names == {<<"t", "1">>}
Extensions == {png, jpeg, webp, gif}
Images == {<<255, 7>>}

MetaFull ==
    <<Item(metadata_scheme, StrVal(<<"v", "1">>)),
      Item(<<"p", "r", "o", "m", "p", "t">>, StrVal(<<"x", "\"", "\\">>)),
      Item(<<"s", "t", "e", "p", "s">>, IntVal(30))>>
MetaNoScheme == <<Item(<<"p", "r", "o", "m", "p", "t">>, StrVal(<<"x">>))>>
Metas == {None, Some(<<>>), Some(MetaFull), Some(MetaNoScheme)}

Ids == {None, Some(<<"i", "7">>)}

\* A file name no save produces
NeverSaved == <<"n", "o", "p", "e", ".", "p", "n", "g">>

\* File names a caller may hold: the entries of the file system, in posix and
\* in host form, and one that was never saved
Filenames(f, s) ==
    (DOMAIN f) \cup {str_replace(q, "/", s) : q \in DOMAIN f} \cup {NeverSaved}

NoCall == [img |-> <<>>, meta |-> None, name |-> <<>>, ext |-> <<>>,
           filename |-> None, transaction_id |-> None, user_id |-> None]

\* What output_dir may hold when the module is imported (it is created only
\* if missing): nothing, the first date bucket, and in it a directory or a
\* dangling link where an artifact would go, or a dangling link as bucket
FirstDay == [year |-> 2024, month |-> 3, day |-> 22]
FirstTarget == Resolve(save_filename(FirstDay, <<"t", "1">>, png, "/"), "/")
InitialFileSystems ==
    { <<>>,
      Put(<<>>, strftime(FirstDay), Dir),
      Put(Put(<<>>, strftime(FirstDay), Dir), FirstTarget, Dir),
      Put(Put(<<>>, strftime(FirstDay), Dir), FirstTarget, Symlink),
      Put(<<>>, strftime(FirstDay), Symlink) }

\* A save() call that has not started: its position, its locals (filename,
\* file_path, the chunks Image.save writes, the offset of its file object),
\* the exception it raised, and when it opened the file and wrote its last
\* chunk, counted in such events of both calls
Idle == [pc |-> "idle", filename |-> <<>>, file_path |-> <<>>, chunks |-> <<>>,
         pos |-> 0, raised |-> "none", opened |-> 0, written |-> 0]

Init ==
    /\ fs \in InitialFileSystems
    /\ sep \in {"/", "\\"}
    /\ clock = FirstDay
    /\ bucket = {}
    /\ op = "none"
    /\ call = NoCall
    /\ ret = None
    /\ raised = "none"
    /\ log = <<>>
    /\ contacted = <<>>
    /\ steps = 0
    /\ procs = [i \in {1, 2} |-> Idle]

----------------------------------------------------------------------------
(* The calls, one at a time *)

\* The wall clock reaches the next day
Tick ==
    /\ steps < MaxOps
    /\ clock.day < MaxDay
    /\ clock' = [clock EXCEPT !.day = @ + 1]
    /\ steps' = steps + 1
    /\ op' = "tick"
    /\ call' = NoCall
    /\ ret' = None
    /\ raised' = "none"
    /\ log' = <<>>
    /\ contacted' = <<>>
    /\ UNCHANGED <<fs, sep, bucket, procs>>

Save ==
    /\ steps < MaxOps
    /\ \E img \in Images, image_meta \in Metas, image_name \in Names, extension \in Extensions :
          LET r == save_output_file(fs, sep, clock, img, image_meta, image_name, extension) IN
          /\ fs' = r.fs
          /\ ret' = r.ret
          /\ raised' = r.raised
          /\ call' = [NoCall EXCEPT !.img = img, !.meta = image_meta,
                                    !.name = image_name, !.ext = extension]
    /\ op' = "save"
    /\ log' = <<>>
    /\ contacted' = <<>>
    /\ steps' = steps + 1
    /\ UNCHANGED <<sep, clock, bucket, procs>>

Delete ==
    /\ steps < MaxOps
    /\ \E filename \in Filenames(fs, sep) :
          LET r == delete_output_file(fs, sep, filename) IN
          /\ fs' = r.fs
          /\ log' = r.log
          /\ raised' = r.raised
          /\ call' = [NoCall EXCEPT !.filename = Some(filename)]
    /\ op' = "delete"
    /\ ret' = None
    /\ contacted' = <<>>
    /\ steps' = steps + 1
    /\ UNCHANGED <<sep, clock, bucket, procs>>

ToBase64 ==
    /\ \E filename \in {None} \cup {Some(q) : q \in Filenames(fs, sep)} :
          LET r == output_file_to_base64img(fs, sep, filename) IN
          /\ ret' = r.ret
          /\ raised' = r.raised
          /\ call' = [NoCall EXCEPT !.filename = filename]
    /\ op' = "to_base64"
    /\ log' = <<>>
    /\ contacted' = <<>>
    /\ UNCHANGED <<fs, sep, clock, bucket, steps, procs>>

ToBytes ==
    /\ \E filename \in {None} \cup {Some(q) : q \in Filenames(fs, sep)} :
          LET r == output_file_to_bytesimg(fs, sep, filename) IN
          /\ ret' = r.ret
          /\ raised' = r.raised
          /\ call' = [NoCall EXCEPT !.filename = filename]
    /\ op' = "to_bytes"
    /\ log' = <<>>
    /\ contacted' = <<>>
    /\ UNCHANGED <<fs, sep, clock, bucket, steps, procs>>

Upload ==
    /\ steps < MaxOps
    /\ \E filename \in {None} \cup {Some(q) : q \in Filenames(fs, sep)},
          transaction_id \in Ids, user_id \in Ids, accepted \in BOOLEAN :
          LET r == upload_to_storage(fs, sep, bucket, filename, transaction_id,
                                     user_id, accepted) IN
          /\ ret' = r.ret
          /\ raised' = r.raised
          /\ contacted' = r.contacted
          /\ bucket' = r.bucket
          /\ call' = [NoCall EXCEPT !.filename = filename,
                                    !.transaction_id = transaction_id,
                                    !.user_id = user_id]
    /\ op' = "upload"
    /\ log' = <<>>
    /\ steps' = steps + 1
    /\ UNCHANGED <<fs, sep, clock, procs>>

ServeUrl ==
    /\ \E filename \in {None} \cup {Some(q) : q \in Filenames(fs, sep)} :
          LET r == get_file_serve_url(filename) IN
          /\ ret' = r.ret
          /\ raised' = r.raised
          /\ call' = [NoCall EXCEPT !.filename = filename]
    /\ op' = "serve_url"
    /\ log' = <<>>
    /\ contacted' = <<>>
    /\ UNCHANGED <<fs, sep, clock, bucket, steps, procs>>

Next == Tick \/ Save \/ Delete \/ ToBase64 \/ ToBytes \/ Upload \/ ServeUrl

Spec == Init /\ [][Next]_vars

----------------------------------------------------------------------------
(* Two save_output_file calls running concurrently (no lock is taken): each *)
(* call advances statement by statement, and Image.save opens the file,     *)
(* writes its chunks one write at a time at its own offset, and closes.     *)

ConcNames == {<<"t", "1">>, <<"t", "2">>}
ConcExtensions == {png, jpeg}
ConcMetas == {None, Some(MetaFull), Some(MetaNoScheme)}
\* The image each of the two calls is given
ConcImage(i) == IF i = 1 THEN <<0>> ELSE <<255, 7>>

\* Number of open and last-write events so far
Events == Cardinality({i \in {1, 2} : procs[i].opened > 0})
          + Cardinality({i \in {1, 2} : procs[i].written > 0})

seqVars == <<sep, clock, bucket, op, call, ret, raised, log, contacted, steps>>

\* Lines 50-66: the locals of the call
SaveEnter(i) ==
    /\ procs[i].pc = "idle"
    /\ \E image_meta \in ConcMetas, image_name \in ConcNames, extension \in ConcExtensions :
          LET filename == save_filename(clock, image_name, extension, sep)
              format == save_format(extension)
              info == save_pnginfo(format, image_meta)
          IN  procs' = [procs EXCEPT ![i] =
                  IF info.raised # "none"
                  THEN [@ EXCEPT !.pc = "raised", !.raised = info.raised]
                  ELSE [@ EXCEPT !.pc = "makedirs",
                                 !.filename = filename,
                                 !.file_path = Resolve(filename, sep),
                                 !.chunks = Encode(ConcImage(i), format, info.meta)]]
    /\ UNCHANGED <<fs, seqVars>>

\* Line 68: os.makedirs(os.path.dirname(file_path), exist_ok=True)
SaveMakedirs(i) ==
    /\ procs[i].pc = "makedirs"
    /\ LET made == os_makedirs(fs, dirname(procs[i].file_path)) IN
          /\ fs' = made.fs
          /\ procs' = [procs EXCEPT ![i] =
                  IF made.raised # "none"
                  THEN [@ EXCEPT !.pc = "raised", !.raised = made.raised]
                  ELSE [@ EXCEPT !.pc = "open"]]
    /\ UNCHANGED seqVars

\* Lines 69-73, Image.save: the file is opened for writing and truncated
SaveOpen(i) ==
    /\ procs[i].pc = "open"
    /\ LET opened == open_write(fs, procs[i].file_path) IN
          /\ fs' = opened.fs
          /\ procs' = [procs EXCEPT ![i] =
                  IF opened.raised # "none"
                  THEN [@ EXCEPT !.pc = "raised", !.raised = opened.raised]
                  ELSE [@ EXCEPT !.pc = "write", !.pos = 0, !.opened = Events + 1]]
    /\ UNCHANGED seqVars

\* Lines 69-73, Image.save: one write, at the offset of this call's file object
SaveWrite(i) ==
    /\ procs[i].pc = "write"
    /\ procs[i].pos < Len(procs[i].chunks)
    /\ fs' = [fs EXCEPT ![procs[i].file_path].data =
                 write_at(@, procs[i].pos, procs[i].chunks[procs[i].pos + 1])]
    /\ procs' = [procs EXCEPT ![i] =
                 [@ EXCEPT !.pos = @ + 1,
                           !.written = IF procs[i].pos + 1 = Len(procs[i].chunks)
                                       THEN Events + 1 ELSE 0]]
    /\ UNCHANGED seqVars

\* Lines 73-74: the file is closed and the posix form of filename returned
SaveReturn(i) ==
    /\ procs[i].pc = "write"
    /\ procs[i].pos = Len(procs[i].chunks)
    /\ procs' = [procs EXCEPT ![i] = [@ EXCEPT !.pc = "done"]]
    /\ UNCHANGED <<fs, seqVars>>

NextConc ==
    \E i \in {1, 2} :
        SaveEnter(i) \/ SaveMakedirs(i) \/ SaveOpen(i) \/ SaveWrite(i) \/ SaveReturn(i)

SpecConc == Init /\ [][NextConc]_vars

----------------------------------------------------------------------------
(* Properties *)

\* The entry the file name of the last call names
CallPath == Resolve(call.filename.v, sep)

\* The decoded image of the regular file at p
Stored(p) == ImageOpen(fs[p].data)

B64Index(c) == (CHOOSE j \in 1..64 : B64Alphabet[j] = c) - 1

RECURSIVE b64decode(_)
\* The bytes a base64 text stands for
b64decode(t) ==
    IF t = <<>> THEN <<>>
    ELSE LET a == B64Index(t[1])
             b == B64Index(t[2])
         IN  IF t[3] = "=" THEN <<a * 4 + b \div 16>>
             ELSE IF t[4] = "="
             THEN <<a * 4 + b \div 16, (b % 16) * 16 + B64Index(t[3]) \div 4>>
             ELSE <<a * 4 + b \div 16, (b % 16) * 16 + B64Index(t[3]) \div 4,
                    (B64Index(t[3]) % 4) * 64 + B64Index(t[4])>>
                  \o b64decode(SubSeq(t, 5, Len(t)))

\* d1 == d2 of two dicts: the same items, in any order
dict_eq(d1, d2) == {d1[i] : i \in 1..Len(d1)} = {d2[i] : i \in 1..Len(d2)}

(* The reader of the 'parameters' chunk: a JSON object of strings and integers *)

RECURSIVE json_read_str(_, _, _)
\* The string whose body starts at s[i]: [v, next], next after the closing quote
json_read_str(s, i, acc) ==
    IF s[i] = "\"" THEN [v |-> acc, next |-> i + 1]
    ELSE IF s[i] = "\\" THEN json_read_str(s, i + 2, Append(acc, s[i + 1]))
    ELSE json_read_str(s, i + 1, Append(acc, s[i]))

DigitOf(c) == (CHOOSE j \in 1..10 : DigitChars[j] = c) - 1
IsDigit(c) == \E j \in 1..10 : DigitChars[j] = c

RECURSIVE json_read_int(_, _, _)
json_read_int(s, i, acc) ==
    IF i <= Len(s) /\ IsDigit(s[i]) THEN json_read_int(s, i + 1, 10 * acc + DigitOf(s[i]))
    ELSE [v |-> acc, next |-> i]

json_read_value(s, i) ==
    IF s[i] = "\""
    THEN LET r == json_read_str(s, i + 1, <<>>) IN [v |-> StrVal(r.v), next |-> r.next]
    ELSE LET r == json_read_int(s, i, 0) IN [v |-> IntVal(r.v), next |-> r.next]

RECURSIVE json_read_items(_, _, _)
\* The members of an object from the key that opens at s[i]
json_read_items(s, i, acc) ==
    LET key == json_read_str(s, i + 1, <<>>)
        val == json_read_value(s, key.next + 2)
        got == Append(SelectSeq(acc, LAMBDA it : it.k # key.v), Item(key.v, val.v))
    IN  IF s[val.next] = "," THEN json_read_items(s, val.next + 2, got) ELSE got

\* json.loads(s) of an object of strings and integers
json_loads(s) == IF s[2] = "}" THEN <<>> ELSE json_read_items(s, 2, <<>>)

\* C1: a save with an extension other than png, jpeg, webp that returns has
\* written, and returned, '<date-bucket>/<name>.png', and the file is PNG-encoded.
C1_UnknownExtensionSavesPng ==
    (op = "save" /\ raised = "none" /\ call.ext \notin {png, jpeg, webp}) =>
        LET named == strftime(clock) \o <<"/">> \o call.name \o <<".">> \o png IN
        /\ ret = Some(named)
        /\ os_path_isfile(fs, named)
        /\ Stored(named).format = png

C3_MetadataEmbedding ==
    (op = "save" /\ raised = "none") =>
        LET img == Stored(Resolve(ret.v, sep))
            given == call.meta.present /\ call.meta.v # <<>>
        IN  /\ img.ok
            /\ (img.text # <<>>) <=> (img.format = png /\ given)
            /\ img.format # png => img.text = <<>>
            /\ img.text # <<>> =>
                  /\ Len(img.text) = 2
                  /\ img.text[1].k = parameters
                  /\ dict_eq(json_loads(img.text[1].txt), call.meta.v)
                  /\ img.text[2].k = fooocus_scheme
                  /\ img.text[2].txt = dict_get(call.meta.v, metadata_scheme).s

\* A save with an unknown extension and metadata has embedded the metadata
C3_Witness ==
    /\ op = "save"
    /\ raised = "none"
    /\ call.ext = gif
    /\ call.meta = Some(MetaFull)
    /\ Stored(Resolve(ret.v, sep)).text # <<>>

\* C4 as stated: a delete of a path that is not a regular file does not raise,
\* logs the warning and the caught removal failure, and leaves the file system
\* unchanged.
C4_DeleteLeavesNonFiles ==
    [][(op' = "delete" /\ ~os_path_isfile(fs, Resolve(call'.filename.v, sep))) =>
          /\ raised' = "none"
          /\ log' = <<"warn", "error">>
          /\ fs' = fs]_vars

\* C4 amended: delete never raises; a path that is absent or a directory is
\* warned about, the removal failure is caught and logged and the file system
\* is unchanged; a dangling link is warned about and then removed; a regular
\* file is removed; in each case a second delete of the path changes nothing.
C4_DeleteQuiet ==
    [][op' = "delete" =>
          LET p == Resolve(call'.filename.v, sep)
              k == KindOf(fs, p)
          IN  /\ raised' = "none"
              /\ k \in {"absent", "dir"} => (log' = <<"warn", "error">> /\ fs' = fs)
              /\ k = "symlink" => (log' = <<"warn", "info">> /\ fs' = Drop(fs, p))
              /\ k = "file" => (log' = <<"info">> /\ fs' = Drop(fs, p))
              /\ delete_output_file(fs', sep, call'.filename.v).fs = fs'
              /\ delete_output_file(fs', sep, call'.filename.v).raised = "none"]_vars

\* A directory has been passed to delete: warned, removal failed, still there
C4_Witness ==
    /\ op = "delete"
    /\ log = <<"warn", "error">>
    /\ os_path_isdir(fs, CallPath)

\* C5 as stated: each of to_base64, to_bytes, upload and serve_url, called
\* with a path at which there is no file, returns absent and does not raise.
C5_NotFoundIsAbsent ==
    (/\ op \in {"to_base64", "to_bytes", "upload", "serve_url"}
     /\ call.filename.present
     /\ ~os_path_isfile(fs, CallPath)) =>
        (raised = "none" /\ ret = None)

\* C5 amended: to_base64, to_bytes and upload, called with a path at which
\* there is no file, return absent and do not raise; serve_url does not
\* raise either, but it makes no existence test and returns the URL of the path.
C5_NotFoundOfReads ==
    (/\ op \in {"to_base64", "to_bytes", "upload", "serve_url"}
     /\ call.filename.present
     /\ ~os_path_isfile(fs, CallPath)) =>
        /\ raised = "none"
        /\ op # "serve_url" => ret = None
        /\ op = "serve_url" =>
              ret = Some(STATIC_SERVER_BASE \o str_replace(call.filename.v, "\\", "/"))

\* to_bytes has been called with a path that was never saved
C5_Witness ==
    /\ op = "to_bytes"
    /\ call.filename = Some(NeverSaved)
    /\ ret = None

\* C6: upload returns absent and makes no request to the storage client when
\* one of its inputs is absent or the path is no regular file; otherwise it
\* does contact the client, and every request names '<user_id>/<transaction_id>/<path>'.
C6_UploadContactsClient ==
    op = "upload" =>
        LET ready == /\ call.filename.present
                     /\ call.transaction_id.present
                     /\ call.user_id.present
                     /\ os_path_isfile(fs, CallPath)
            key == call.user_id.v \o <<"/">> \o call.transaction_id.v
                   \o <<"/">> \o call.filename.v
        IN  /\ ~ready => (ret = None /\ raised = "none" /\ contacted = <<>>)
            /\ ready =>
                  /\ contacted # <<>>
                  /\ contacted[1].request = "upload"
                  /\ \A i \in 1..Len(contacted) : contacted[i].path = key
                  /\ raised = "none" => (ret.present /\ key \in bucket)

\* An upload has stored the object and returned its public URL
C6_Witness ==
    /\ op = "upload"
    /\ raised = "none"
    /\ ret.present
    /\ bucket # {}

\* C7: a save that returns gives '<date-bucket>/<name>.<extension>' with
\* forward slashes and a regular file is at that path; a regular file stays
\* one, of which to_base64 and to_bytes are not absent, through every step
\* that is not a delete of its path.
C7_SaveReturnsPath ==
    /\ []((op = "save" /\ raised = "none") =>
            /\ ret = Some(strftime(clock) \o <<"/">> \o call.name \o <<".">> \o call.ext)
            /\ os_path_isfile(fs, ret.v)
            /\ output_file_to_base64img(fs, sep, ret).ret.present
            /\ output_file_to_bytesimg(fs, sep, ret).ret.present)
    /\ [][\A p \in DOMAIN fs :
             (/\ fs[p].kind = "file"
              /\ ~(op' = "delete" /\ Resolve(call'.filename.v, sep) = p)) =>
                /\ os_path_isfile(fs', p)
                /\ output_file_to_base64img(fs', sep, Some(p)).raised = "none"
                /\ output_file_to_base64img(fs', sep, Some(p)).ret.present
                /\ output_file_to_bytesimg(fs', sep, Some(p)).raised = "none"
                /\ output_file_to_bytesimg(fs', sep, Some(p)).ret.present]_vars

\* The path a save returned has been read back on a host whose separator is
\* the backslash
C7_Witness ==
    /\ sep = "\\"
    /\ op = "to_base64"
    /\ ret.present
    /\ steps >= 1

\* A save of each of the two calls is done
BothDone == procs[1].pc = "done" /\ procs[2].pc = "done"

\* C8 as stated: after two concurrent saves, files at distinct paths each hold
\* the content of their own save, and a shared path holds the content of the
\* save that wrote last.
C8_LastWriterWins ==
    BothDone =>
        IF procs[1].file_path # procs[2].file_path
        THEN \A i \in {1, 2} : fs[procs[i].file_path] = File(procs[i].chunks)
        ELSE \A i \in {1, 2} :
                procs[i].written > procs[3 - i].written =>
                    fs[procs[i].file_path] = File(procs[i].chunks)

\* C8 amended: after two concurrent saves, files at distinct paths each hold
\* the content of their own save; at a shared path a regular file remains,
\* every chunk of it is the chunk one of the two saves wrote at that offset
\* or a hole a truncation left, and it is the content of the later save where
\* the earlier save had written its last chunk before the later one opened
\* the file.
C8_SavesRace ==
    BothDone =>
        IF procs[1].file_path # procs[2].file_path
        THEN \A i \in {1, 2} : fs[procs[i].file_path] = File(procs[i].chunks)
        ELSE LET p == procs[1].file_path IN
             /\ os_path_isfile(fs, p)
             /\ Len(fs[p].data) \in {Len(procs[1].chunks), Len(procs[2].chunks)}
             /\ \A k \in 1..Len(fs[p].data) :
                   \/ fs[p].data[k].t = "hole"
                   \/ \E i \in {1, 2} :
                         k <= Len(procs[i].chunks) /\ fs[p].data[k] = procs[i].chunks[k]
             /\ \A i \in {1, 2} :
                   procs[3 - i].written < procs[i].opened =>
                       fs[p] = File(procs[i].chunks)

\* Two saves to one path are done and the file is the content of neither
C8_Witness ==
    /\ BothDone
    /\ procs[1].file_path = procs[2].file_path
    /\ \A i \in {1, 2} : fs[procs[i].file_path] # File(procs[i].chunks)

\* C9: on every file name, in every file-system state, to_base64 and to_bytes
\* are both absent when the name is absent or names no regular file, and
\* otherwise to_base64 is the base64 text of to_bytes, which is the PNG
\* encoding of the stored image; neither call changes the file system.
C9_Base64AgreesWithBytes ==
    /\ [](\A filename \in {None} \cup {Some(q) : q \in Filenames(fs, sep)} :
            LET t == output_file_to_base64img(fs, sep, filename)
                b == output_file_to_bytesimg(fs, sep, filename)
            IN  IF ~filename.present \/ ~os_path_isfile(fs, Resolve(filename.v, sep))
                THEN t = [ret |-> None, raised |-> "none"] /\ b = t
                ELSE /\ t.raised = "none" /\ b.raised = "none"
                     /\ t.ret.present /\ b.ret.present
                     /\ b64decode(t.ret.v) = b.ret.v
                     /\ b.ret.v = PngBytes(Stored(Resolve(filename.v, sep)).px))
    /\ [](op = "to_base64" => [ret |-> ret, raised |-> raised]
                                 = output_file_to_base64img(fs, sep, call.filename))
    /\ [](op = "to_bytes" => [ret |-> ret, raised |-> raised]
                                = output_file_to_bytesimg(fs, sep, call.filename))
    /\ [][op' \in {"to_base64", "to_bytes"} => fs' = fs]_vars

\* to_base64 has re-encoded a stored JPEG
C9_Witness ==
    /\ op = "to_base64"
    /\ ret.present
    /\ Stored(CallPath).format = jpeg

\* C10: a save to a PNG with a non-empty metadata mapping that lacks
\* 'metadata_scheme' raises KeyError and leaves the file system as it was.
C10_MissingSchemeRaisesEarly ==
    [][(/\ op' = "save"
        /\ call'.ext \notin {jpeg, webp}
        /\ call'.meta.present
        /\ call'.meta.v # <<>>
        /\ metadata_scheme \notin dict_keys(call'.meta.v)) =>
          (raised' = "KeyError" /\ ret' = None /\ fs' = fs)]_vars

\* Such a save has failed where not even the date bucket exists
C10_Witness ==
    /\ op = "save"
    /\ raised = "KeyError"
    /\ call.meta = Some(MetaNoScheme)
    /\ KindOf(fs, strftime(clock)) = "absent"

====
